---- MODULE Spec2Model ----
(***************************************************************************)
(* Model of the Pickle Viewer & Strategy Plotter (trading_data_plot.py)    *)
(* and of its storage helpers (dropbox_utils.py).                          *)
(*                                                                         *)
(* Values.  A cell of a table is a pair <<tag, n>>:                         *)
(*   <<"str", k>>   the text of a parseable date, day k                    *)
(*   <<"ts", k>>    a Timestamp, day k                                     *)
(*   <<"bad", 0>>   a text that is not a date                              *)
(*   <<"text", 0>>  the text "False";  <<"text", 1>> the empty text        *)
(*   <<"text", 2>>  "buy";  <<"text", 3>> "sell";  <<"text", 4>> a colour  *)
(*   <<"text", 5>>  a ticker symbol                                        *)
(*   <<"none", 0>>  None;   <<"nan", 0>> float NaN;  <<"nat", 0>> NaT      *)
(*   <<"bool", b>>  False / True;   <<"int", n>>, <<"num", n>> numbers     *)
(* A DataFrame is [type, columns, index, rows]: the set of column names,   *)
(* the sequence of index labels and the sequence of rows, each row a       *)
(* function from the column names to cells.                                *)
(***************************************************************************)
EXTENDS Integers, Sequences, FiniteSets, TLC

VARIABLES
    uploaded_df,    \* the module-level global DataFrame
    store,          \* per session: dcc.Store strategy-type and last-loaded-file-key
    table,          \* per session: the rows the data-table shows
    selected_rows,  \* per session: data-table.selected_rows
    plot_output,    \* what the last plot request returned, and to which session
    payload,        \* the object read_pickle_from_dropbox returned
    resolved,       \* what read_and_unpack_ticker_pickle returned or raised
    raw,            \* plot_selected_row: data right after pd.DataFrame(plot_dict)
    data,           \* plot_selected_row: the local DataFrame `data`
    ctx,            \* plot_selected_row: strategy_type, last_loaded_key, ticker
    fig,            \* plot_selected_row: what the request produced
    pc              \* position of the pipeline under study

vars == <<uploaded_df, store, table, selected_rows, plot_output,
          payload, resolved, raw, data, ctx, fig, pc>>

(***************************************************************************)
(* Bounds of the model.                                                    *)
(***************************************************************************)
MaxRows == 3
MaxDay == 2
MaxDropped == 2
MaxAdded == 2

NoValue == [type |-> "NoValue"]

Range(f) == {f[x] : x \in DOMAIN f}

\* Python's `sub in s` on strings.
StrIn(sub, s) ==
    \E i \in 1..(Len(s) - Len(sub) + 1) : SubSeq(s, i, i + Len(sub) - 1) = sub

(***************************************************************************)
(* Python values and pandas construction.                                  *)
(***************************************************************************)
PyDict(m) == [type |-> "dict", map |-> m]
PyList(items) == [type |-> "list", items |-> items]
PyOther(tag) == [type |-> tag]
\* A text: its syntax class and the value it denotes when it parses.
PyStr(syntax, value) == [type |-> "str", syntax |-> syntax, denotes |-> value]

DataFrame(columns, index, rows) ==
    [type |-> "DataFrame", columns |-> columns, index |-> index, rows |-> rows]

EmptyFrame == DataFrame({}, <<>>, <<>>)

Raise(exc, cause) == [type |-> "raise", exc |-> exc, cause |-> cause]
IsRaise(v) == v.type = "raise"

\* RangeIndex(n): the labels 0 .. n-1.
RangeIndex(n) == [i \in 1..n |-> <<"int", i - 1>>]

\* The cell as the column of these values stores it: a column of numbers
\* is a float column, where None is stored as NaN; any other column keeps
\* the objects as they are.
InColumn(values, cell) ==
    LET numeric == {"int", "num", "nan"}
    IN  IF /\ cell[1] = "none"
           /\ \E i \in DOMAIN values : values[i][1] \in numeric
           /\ \A i \in DOMAIN values : values[i][1] \in numeric \cup {"none"}
        THEN <<"nan", 0>>
        ELSE cell

\* pd.DataFrame(obj).  A mapping column -> list makes one row per list
\* position and needs lists of one length; a list makes the single column 0;
\* anything else is refused.
pd_DataFrame(obj) ==
    IF obj.type = "DataFrame" THEN obj
    ELSE IF obj.type = "dict" THEN
        LET m == obj.map
            lens == {Len(m[c]) : c \in DOMAIN m}
        IN  IF Cardinality(lens) > 1
            THEN Raise("ValueError", "All arrays must be of the same length")
            ELSE LET n == IF lens = {} THEN 0 ELSE CHOOSE l \in lens : TRUE
                 IN  DataFrame(DOMAIN m, RangeIndex(n),
                               [i \in 1..n |->
                                   [c \in DOMAIN m |-> InColumn(m[c], m[c][i])]])
    ELSE IF obj.type = "list" THEN
        DataFrame({"0"}, RangeIndex(Len(obj.items)),
                  [i \in 1..Len(obj.items) |-> [c \in {"0"} |-> obj.items[i]]])
    ELSE Raise("ValueError", "DataFrame constructor not properly called!")

\* json.loads: strict parser, accepts JSON text only.
json_loads(s) ==
    IF s.syntax = "json" THEN s.denotes
    ELSE Raise("JSONDecodeError", s.syntax)

\* ast.literal_eval: Python literals only; names and calls are refused.
ast_literal_eval(s) ==
    IF s.syntax = "python" THEN s.denotes
    ELSE Raise("ValueError", s.syntax)

(***************************************************************************)
(* dropbox_utils.read_and_unpack_ticker_pickle, from the fetched object.   *)
(***************************************************************************)
\* df.loc[0, 'plot_dict']: the cell of the row labelled 0.
loc0_plot_dict(df) ==
    LET hits == {i \in 1..Len(df.index) : df.index[i] = <<"int", 0>>}
    IN  IF hits = {} THEN Raise("KeyError", "0")
        ELSE IF Cardinality(hits) > 1 THEN PyOther("Series")
        ELSE df.rows[CHOOSE i \in hits : TRUE]["plot_dict"]

unpack_plot_dict(df) ==
    LET raw_plot_dict == loc0_plot_dict(df)
        plot_data ==
            IF IsRaise(raw_plot_dict) THEN raw_plot_dict
            ELSE IF raw_plot_dict.type = "str" THEN
                LET j == json_loads(raw_plot_dict)
                IN  IF IsRaise(j) THEN ast_literal_eval(raw_plot_dict) ELSE j
            ELSE IF raw_plot_dict.type = "dict" THEN raw_plot_dict
            ELSE Raise("TypeError", "Unexpected plot_dict type")
        unpacked_df == IF IsRaise(plot_data) THEN plot_data
                       ELSE pd_DataFrame(plot_data)
    IN  IF IsRaise(unpacked_df)
        THEN [case |-> 1, result |-> Raise("RuntimeError", unpacked_df.exc)]
        ELSE [case |-> 1, result |-> unpacked_df]

\* A slip in the order of the tests: any table is passed through before
\* the plot_dict column is looked for.
read_and_unpack_table_first(df) ==
    IF df.type = "DataFrame"
    THEN [case |-> 3, result |-> df]
    ELSE IF df.type = "dict"
    THEN [case |-> 2, result |-> pd_DataFrame(df)]
    ELSE [case |-> 0, result |-> Raise("TypeError", "Unexpected pickle content type")]

read_and_unpack_ticker_pickle(df) ==
    IF df.type = "DataFrame" /\ "plot_dict" \in df.columns
    THEN unpack_plot_dict(df)
    ELSE IF df.type = "dict"
    THEN LET unpacked_df == pd_DataFrame(df)
         IN  [case |-> 2, result |-> unpacked_df]
    ELSE IF df.type = "DataFrame"
    THEN [case |-> 3, result |-> df]
    ELSE [case |-> 0, result |-> Raise("TypeError", "Unexpected pickle content type")]

(***************************************************************************)
(* plot_selected_row, lines 236-258: decoding of the fetched object, the   *)
(* timeline logic and the coercion of the signal columns.                  *)
(***************************************************************************)
SignalRegistry ==
    <<"entry_buy_signal", "entry_buy_signal2", "trigger_sell_signal",
      "is_earnings_date", "is_earnings_warning">>

IsNull(cell) == cell[1] \in {"none", "nan", "nat"}

\* pd.to_datetime(value, errors='coerce')
to_datetime(cell) ==
    IF cell[1] \in {"str", "ts"} THEN <<"ts", cell[2]>> ELSE <<"nat", 0>>

\* bool(value), as Series.astype(bool) applies it: NaN and every non-empty
\* text are truthy, None, zero and the empty text are falsy.
to_bool(cell) ==
    IF cell[1] = "bool" THEN cell
    ELSE IF cell[1] \in {"int", "num"} THEN <<"bool", IF cell[2] = 0 THEN 0 ELSE 1>>
    ELSE IF cell[1] = "none" THEN <<"bool", 0>>
    ELSE IF cell[1] = "text" /\ cell[2] = 1 THEN <<"bool", 0>>
    ELSE <<"bool", 1>>

\* The orders sort_values('Date') may leave the rows in: ascending by key,
\* rows of equal key in any order (the default sort kind is not stable).
SortOrders(keys) ==
    LET n == Len(keys)
    IN  {p \in [1..n -> 1..n] :
            /\ \A i, j \in 1..n : i # j => p[i] # p[j]
            /\ \A i \in 1..n : i < n => keys[p[i]][2] <= keys[p[i + 1]][2]}

\* The positions of the rows dropna(subset=['Date']) keeps, in order.
RECURSIVE KeptRows(_, _)
KeptRows(rows, i) ==
    IF i > Len(rows) THEN <<>>
    ELSE IF IsNull(rows[i]["Date"]) THEN KeptRows(rows, i + 1)
    ELSE <<i>> \o KeptRows(rows, i + 1)

\* A slip in the re-keying: set_index('Date', drop=False) keeps Date as a
\* column beside the index.
timeline_keep_date(df) ==
    IF "Date" \notin df.columns THEN {df}
    ELSE LET parsed == [i \in 1..Len(df.rows) |->
                           [df.rows[i] EXCEPT !["Date"] = to_datetime(@)]]
             kept == KeptRows(parsed, 1)
             keys == [i \in 1..Len(kept) |-> parsed[kept[i]]["Date"]]
         IN  {DataFrame(df.columns,
                        [i \in 1..Len(kept) |-> keys[p[i]]],
                        [i \in 1..Len(kept) |-> parsed[kept[p[i]]]])
              : p \in SortOrders(keys)}

\* Lines 246-249: the frames the timeline logic may produce.
timeline(df) ==
    IF "Date" \notin df.columns THEN {df}
    ELSE LET parsed == [i \in 1..Len(df.rows) |->
                           [df.rows[i] EXCEPT !["Date"] = to_datetime(@)]]
             kept == KeptRows(parsed, 1)
             keys == [i \in 1..Len(kept) |-> parsed[kept[i]]["Date"]]
             rest == df.columns \ {"Date"}
         IN  {DataFrame(rest,
                        [i \in 1..Len(kept) |-> keys[p[i]]],
                        [i \in 1..Len(kept) |->
                            [c \in rest |-> parsed[kept[p[i]]][c]]])
              : p \in SortOrders(keys)}

\* Lines 255-258: data[col] = data[col].astype(bool) for the registry columns.
coerce_signals(df) ==
    LET reg == Range(SignalRegistry) \cap df.columns
    IN  [df EXCEPT !.rows =
            [i \in 1..Len(df.rows) |->
                [c \in df.columns |->
                    IF c \in reg THEN to_bool(df.rows[i][c]) ELSE df.rows[i][c]]]]

\* Lines 237-243: the object the plot request makes a DataFrame from.
parse_plot_dict(plot_dict) ==
    IF plot_dict.type = "str" THEN
        LET j == json_loads(plot_dict)
        IN  IF IsRaise(j) THEN j ELSE pd_DataFrame(j)
    ELSE IF plot_dict.type # "dict"
    THEN [type |-> "Div", text |-> "'plot_dict' is not a valid dictionary."]
    ELSE pd_DataFrame(plot_dict)

(***************************************************************************)
(* plot_selected_row, lines 260-271: labels and subplot titles.            *)
(***************************************************************************)
plot_mode(strategy_type) ==
    IF strategy_type = "swing" THEN "Swing" ELSE "Positioning"

timeframe_label(last_loaded_key) ==
    IF StrIn("daily", last_loaded_key) THEN "Daily" ELSE "Weekly"

subplot_titles(strategy_type, last_loaded_key, ticker) ==
    LET head == timeframe_label(last_loaded_key) \o " "
                  \o plot_mode(strategy_type) \o " - " \o ticker
    IN  IF plot_mode(strategy_type) = "Swing"
        THEN <<head \o ": Candlestick + MA(20/40) + Dynamic SLs",
               head \o ": CCI (6) + MA(1)">>
        ELSE <<head \o ": Candlestick Chart with Signals",
               head \o ": TIF">>

\* A slip in the layout: the swing heights used for both modes.
row_heights_same(strategy_type) == <<70, 30>>

\* row_heights of make_subplots, in hundredths (0.7 is 70).
row_heights(strategy_type) ==
    IF strategy_type = "swing" THEN <<70, 30>> ELSE <<50, 30>>

(***************************************************************************)
(* plot_selected_row, lines 275-502: the traces of the figure.             *)
(***************************************************************************)
PriceColumns == <<"Open", "High", "Low", "Close">>

\* name -> column of the dynamic stop-loss lines, in dict order.
sl_lines ==
    << <<"SL 1x Lower", "Dyn_SL_1x_Lower">>, <<"SL 2x Lower", "Dyn_SL_2x_Lower">>,
       <<"SL 1x Upper", "Dyn_SL_1x_Upper">>, <<"SL 2x Upper", "Dyn_SL_2x_Upper">>,
       <<"Trailing SL 1x", "Dyn_Trail_SL_1x">>, <<"Trailing SL 2x", "Dyn_Trail_SL_2x">> >>

\* signal column -> price column of the swing entry markers, in dict order.
entry_signals ==
    << <<"Entry_Buy_Signal", "Entry_Buy_Price">>,
       <<"Entry_Buy_Signal2", "Entry_Buy_Price2">> >>

\* One trace of the figure: its legend name, subplot row, graph object,
\* scatter mode, the columns it reads, its x values and its visibility.
Trace(name, row, kind, mode, cols, x, visible) ==
    [name |-> name, row |-> row, kind |-> kind, mode |-> mode,
     cols |-> cols, x |-> x, visible |-> visible]

RECURSIVE Select(_, _, _, _)
\* The index labels of the rows, from row i on, whose cell of col is value.
Select(df, i, col, value) ==
    IF i > Len(df.rows) THEN <<>>
    ELSE (IF df.rows[i][col] = value THEN <<df.index[i]>> ELSE <<>>)
         \o Select(df, i + 1, col, value)

\* data.index[data[col]]: the labels of the rows where the column is True.
Masked(df, col) == Select(df, 1, col, <<"bool", 1>>)

\* data[data['signal_type'] == value].index
OfSignalType(df, value) == Select(df, 1, "signal_type", value)

\* The first of the columns that data[...] looks up and does not find.
RECURSIVE FirstMissing(_, _)
FirstMissing(df, cols) ==
    IF cols = <<>> THEN "" 
    ELSE IF Head(cols) \notin df.columns THEN Head(cols)
    ELSE FirstMissing(df, Tail(cols))

Lines(df, name, col, row, visible) ==
    IF col \in df.columns
    THEN <<Trace(name, row, "Scatter", "lines", {col}, df.index, visible)>>
    ELSE <<>>

RECURSIVE SLTraces(_, _)
SLTraces(df, i) ==
    IF i > Len(sl_lines) THEN <<>>
    ELSE Lines(df, sl_lines[i][1], sl_lines[i][2], 1, "legendonly")
         \o SLTraces(df, i + 1)

RECURSIVE EntryTraces(_, _)
EntryTraces(df, i) ==
    IF i > Len(entry_signals) THEN <<>>
    ELSE LET name == entry_signals[i][1]
             price_col == entry_signals[i][2]
         IN  (IF price_col \in df.columns /\ name \in df.columns
              THEN <<Trace(name, 1, "Scatter", "markers", {name, price_col},
                           Masked(df, name), "default")>>
              ELSE <<>>)
             \o EntryTraces(df, i + 1)

\* Lines 370-391 and 473-494: the earnings markers, the same in both modes.
EarningsTraces(df) ==
    (IF "is_earnings_date" \in df.columns
     THEN <<Trace("Earnings", 1, "Scatter", "markers+text",
                  {"is_earnings_date", "High"},
                  Masked(df, "is_earnings_date"), "default")>>
     ELSE <<>>)
    \o
    (IF "is_earnings_warning" \in df.columns
     THEN <<Trace("Earnings Ahead", 1, "Scatter", "markers+text",
                  {"is_earnings_warning", "High"},
                  Masked(df, "is_earnings_warning"), "default")>>
     ELSE <<>>)

\* A slip in the order: the oscillator lines emitted before the stop-loss
\* lines and the markers.
swing_traces_cci_first(df) ==
    IF FirstMissing(df, PriceColumns) # ""
    THEN Raise("KeyError", FirstMissing(df, PriceColumns))
    ELSE PyList(
      <<Trace("Candlestick", 1, "Candlestick", "", Range(PriceColumns),
              df.index, "default")>>
      \o Lines(df, "MA 20", "MA20", 1, "default")
      \o Lines(df, "MA 40", "MA40", 1, "default")
      \o Lines(df, "CCI (6)", "CCI", 2, "default")
      \o Lines(df, "CCI MA (1)", "CCI_MA", 2, "legendonly")
      \o SLTraces(df, 1)
      \o EntryTraces(df, 1)
      \o EarningsTraces(df))

\* Lines 283-391.
swing_traces(df) ==
    IF FirstMissing(df, PriceColumns) # ""
    THEN Raise("KeyError", FirstMissing(df, PriceColumns))
    ELSE PyList(
      <<Trace("Candlestick", 1, "Candlestick", "", Range(PriceColumns),
              df.index, "default")>>
      \o Lines(df, "MA 20", "MA20", 1, "default")
      \o Lines(df, "MA 40", "MA40", 1, "default")
      \o SLTraces(df, 1)
      \o EntryTraces(df, 1)
      \o (IF "Trigger_Sell_Signal" \in df.columns
             /\ "Trigger_Sell_Price" \in df.columns
          THEN <<Trace("Trigger_Sell_Signal", 1, "Scatter", "markers",
                       {"Trigger_Sell_Signal", "Trigger_Sell_Price"},
                       Masked(df, "Trigger_Sell_Signal"), "default")>>
          ELSE <<>>)
      \o Lines(df, "CCI (6)", "CCI", 2, "default")
      \o Lines(df, "CCI MA (1)", "CCI_MA", 2, "legendonly")
      \o EarningsTraces(df))

PositioningMarker(df, name, col, price_col) ==
    IF col \in df.columns
    THEN <<Trace(name, 1, "Scatter", "markers", {col, price_col},
                 Masked(df, col), "default")>>
    ELSE <<>>

\* Lines 409-494.
positioning_traces(df) ==
    IF FirstMissing(df, <<"signal_type">> \o PriceColumns) # ""
    THEN Raise("KeyError", FirstMissing(df, <<"signal_type">> \o PriceColumns))
    ELSE PyList(
      <<Trace("Buy Context", 1, "Candlestick", "",
              Range(PriceColumns) \cup {"signal_type"},
              OfSignalType(df, <<"text", 2>>), "default"),
        Trace("Sell Context", 1, "Candlestick", "",
              Range(PriceColumns) \cup {"signal_type"},
              OfSignalType(df, <<"text", 3>>), "default")>>
      \o Lines(df, "SMA 40", "SMA", 1, "default")
      \o PositioningMarker(df, "Entry Buy Signal", "entry_buy_signal", "Low")
      \o PositioningMarker(df, "Entry Buy Signal 2", "entry_buy_signal2", "Low")
      \o PositioningMarker(df, "Trigger Sell Signal", "trigger_sell_signal", "High")
      \o (IF "TIF" \in df.columns /\ "TIF_color" \in df.columns
          THEN <<Trace("TIF", 2, "Bar", "", {"TIF", "TIF_color"},
                       df.index, "default")>>
          ELSE <<>>)
      \o EarningsTraces(df))

\* Lines 260-504: the figure of the request, or the exception it dies of.
build_figure(df, strategy_type, last_loaded_key, ticker) ==
    LET traces == IF strategy_type = "swing" THEN swing_traces(df)
                  ELSE positioning_traces(df)
    IN  IF IsRaise(traces) THEN traces
        ELSE [type |-> "Graph",
              row_heights |-> row_heights(strategy_type),
              subplot_titles |->
                  subplot_titles(strategy_type, last_loaded_key, ticker),
              traces |-> traces.items,
              hlines |-> IF strategy_type = "swing" THEN <<100, 0, -100>>
                         ELSE <<>>]

(***************************************************************************)
(* load_pickle_from_button, lines 162-185: the files and the strategy.     *)
(***************************************************************************)
FILE_MAP ==
    [k \in {"load-daily-swing", "load-weekly-swing",
            "load-daily-positioning", "load-weekly-positioning"} |->
        CASE k = "load-daily-swing" -> "/all_daily_swing_excl_plot.pkl"
          [] k = "load-weekly-swing" -> "/all_weekly_swing_excl_plot.pkl"
          [] k = "load-daily-positioning" -> "/all_daily_positioning_excl_plot.pkl"
          [] k = "load-weekly-positioning" -> "/all_weekly_positioning_excl_plot.pkl"]

strategy_type_of(triggered_id) ==
    IF StrIn("swing", triggered_id) THEN "swing" ELSE "positioning"

Tickers == {"AAPL", "MSFT"}

(***************************************************************************)
(* The normalized datasets the figure is built from.                       *)
(***************************************************************************)
BoolColumns ==
    {"Entry_Buy_Signal", "Entry_Buy_Signal2", "Trigger_Sell_Signal",
     "entry_buy_signal", "entry_buy_signal2", "trigger_sell_signal",
     "is_earnings_date", "is_earnings_warning"}

OptionalColumns ==
    {"MA20", "MA40", "CCI", "CCI_MA", "SMA", "TIF", "TIF_color", "signal_type",
     "Entry_Buy_Price", "Entry_Buy_Price2", "Trigger_Sell_Price"}
    \cup {sl_lines[i][2] : i \in DOMAIN sl_lines}
    \cup BoolColumns

AllColumns == Range(PriceColumns) \cup OptionalColumns

RECURSIVE DropUpTo(_)
\* The column sets that lack at most n of the columns.
DropUpTo(n) ==
    IF n = 0 THEN {AllColumns}
    ELSE LET prev == DropUpTo(n - 1)
         IN  prev \cup {s \ {c} : s \in prev, c \in AllColumns}

RECURSIVE AddUpTo(_)
\* The column sets that have the price columns and at most n others.
AddUpTo(n) ==
    IF n = 0 THEN {Range(PriceColumns)}
    ELSE LET prev == AddUpTo(n - 1)
         IN  prev \cup {s \cup {c} : s \in prev, c \in OptionalColumns}

ColumnSets == DropUpTo(MaxDropped) \cup AddUpTo(MaxAdded)

PlanRows == 2

\* Row i of a normalized dataset: the signal columns hold the booleans of
\* flags, signal_type alternates buy and sell, the rest are numbers.
PlanCell(c, i, flags) ==
    IF c \in BoolColumns THEN <<"bool", flags[i]>>
    ELSE IF c = "signal_type" THEN <<"text", 2 + (i % 2)>>
    ELSE IF c = "TIF_color" THEN <<"text", 4>>
    ELSE <<"num", i>>

PlanFrame(cols, flags) ==
    DataFrame(cols, [i \in 1..PlanRows |-> <<"ts", i>>],
              [i \in 1..PlanRows |-> [c \in cols |-> PlanCell(c, i, flags)]])

Idle ==
    /\ uploaded_df = EmptyFrame
    /\ store = NoValue
    /\ table = NoValue
    /\ selected_rows = NoValue
    /\ plot_output = NoValue

InitPlan ==
    /\ Idle
    /\ payload = NoValue
    /\ resolved = NoValue
    /\ raw = NoValue
    /\ \E cols \in ColumnSets, flags \in [1..PlanRows -> {0, 1}] :
          data = PlanFrame(cols, flags)
    /\ ctx = NoValue
    /\ fig = NoValue
    /\ pc = "normalized"

\* Lines 260-504 of a request whose session loaded last_loaded_key.
BuildFigure ==
    /\ pc = "normalized"
    /\ \E last_loaded_key \in DOMAIN FILE_MAP, ticker \in Tickers :
          LET strategy_type == strategy_type_of(last_loaded_key)
          IN  /\ ctx' = [strategy_type |-> strategy_type,
                         last_loaded_key |-> last_loaded_key,
                         ticker |-> ticker,
                         subplot_titles |->
                             subplot_titles(strategy_type, last_loaded_key, ticker)]
              /\ fig' = build_figure(data, strategy_type, last_loaded_key, ticker)
    /\ pc' = "done"
    /\ UNCHANGED <<uploaded_df, store, table, selected_rows, plot_output,
                   payload, resolved, raw, data>>

NextPlan == BuildFigure

SpecPlan == InitPlan /\ [][NextPlan]_vars

(***************************************************************************)
(* Properties of the figure.                                               *)
(***************************************************************************)
Built == pc = "done" /\ fig.type = "Graph"

IsEarnings(t) == t.mode = "markers+text"

\* The group of a trace as the ordering rule names them: 1 price range,
\* 2 line overlay of panel 0, 3 marker of panel 0, 4 secondary panel.
Group(t) ==
    IF t.row = 2 THEN 4
    ELSE IF t.kind = "Candlestick" THEN 1
    ELSE IF t.mode = "lines" THEN 2
    ELSE 3

\* The same, with the earnings markers as a fifth group of their own.
GroupOfCode(t) == IF IsEarnings(t) THEN 5 ELSE Group(t)

\* The legend names of each mode in the order the code declares them.
DeclaredOrder(strategy_type) ==
    IF strategy_type = "swing"
    THEN <<"Candlestick", "MA 20", "MA 40", "SL 1x Lower", "SL 2x Lower",
           "SL 1x Upper", "SL 2x Upper", "Trailing SL 1x", "Trailing SL 2x",
           "Entry_Buy_Signal", "Entry_Buy_Signal2", "Trigger_Sell_Signal",
           "CCI (6)", "CCI MA (1)", "Earnings", "Earnings Ahead">>
    ELSE <<"Buy Context", "Sell Context", "SMA 40", "Entry Buy Signal",
           "Entry Buy Signal 2", "Trigger Sell Signal", "TIF",
           "Earnings", "Earnings Ahead">>

Rank(strategy_type, name) ==
    LET order == DeclaredOrder(strategy_type)
    IN  IF \E i \in DOMAIN order : order[i] = name
        THEN CHOOSE i \in DOMAIN order : order[i] = name
        ELSE 0

\* C1 as stated: in every plan the traces come as price range, panel-0
\* line overlays, panel-0 markers (earnings markers included), then panel 1;
\* no panel-0 trace follows a panel-1 trace.
C1_PanelOneLast ==
    Built => \A i, j \in DOMAIN fig.traces :
                 i < j => Group(fig.traces[i]) <= Group(fig.traces[j])

\* C1 amended: in every plan the traces keep the one declared order of
\* their mode whatever columns are present: price range, panel-0 line
\* overlays, panel-0 signal markers, panel 1, and last the earnings markers.
C1_FixedOrder ==
    Built => \A i, j \in DOMAIN fig.traces :
                 i < j =>
                    /\ GroupOfCode(fig.traces[i]) <= GroupOfCode(fig.traces[j])
                    /\ Rank(ctx.strategy_type, fig.traces[i].name) > 0
                    /\ Rank(ctx.strategy_type, fig.traces[i].name)
                         < Rank(ctx.strategy_type, fig.traces[j].name)

\* A swing plan with a stop-loss line, a signal marker, an oscillator line
\* and an earnings marker, built from a dataset that lacks some column.
C1_Witness ==
    /\ Built
    /\ ctx.strategy_type = "swing"
    /\ data.columns # AllColumns
    /\ {GroupOfCode(fig.traces[i]) : i \in DOMAIN fig.traces} = 1..5

Features(f) == {f.traces[i].name : i \in DOMAIN f.traces}

FullFrame == PlanFrame(AllColumns, [i \in 1..PlanRows |-> 1])

\* C2: with the four price columns present, building the plan does not fail
\* in either mode whatever optional columns are missing, and its features
\* are among those of the plan built from the full dataset.
C2_OptionalColumnsNeverFail ==
    (pc = "done" /\ Range(PriceColumns) \subseteq data.columns) =>
        /\ fig.type = "Graph"
        /\ Features(fig) \subseteq
              Features(build_figure(FullFrame, ctx.strategy_type,
                                    ctx.last_loaded_key, ctx.ticker))

\* The marker traces bound to a boolean column, with that column.
MarkerColumn(t) == CHOOSE c \in t.cols : c \in BoolColumns
IsSignalMarker(t) ==
    t.mode \in {"markers", "markers+text"} /\ t.cols \cap BoolColumns # {}

\* C3: a marker trace bound to a boolean column is in the plan only if the
\* column is present and true in at least one row.
C3_MarkersNeedATrueRow ==
    Built => \A i \in DOMAIN fig.traces :
                 IsSignalMarker(fig.traces[i]) =>
                    /\ MarkerColumn(fig.traces[i]) \in data.columns
                    /\ \E r \in DOMAIN data.rows :
                          data.rows[r][MarkerColumn(fig.traces[i])] = <<"bool", 1>>

\* C8: plan building fails exactly when one of the four price columns is
\* absent, in both modes, and the error is the one about a missing price
\* column (the code's KeyError naming the column stands for
\* MissingRequiredColumnError).
C8_OnlyPriceColumnsFail ==
    pc = "done" =>
        /\ fig.type = "raise" <=> ~(Range(PriceColumns) \subseteq data.columns)
        /\ fig.type = "raise" =>
              fig.cause \in Range(PriceColumns) \ data.columns

\* The titles the layout section of the specification gives, with the en
\* dash written –.
SpecTitles(mode, timeframe, ticker) ==
    LET head == timeframe \o " " \o mode \o " \\u2013 " \o ticker
    IN  IF mode = "Swing"
        THEN <<head \o ": Candlestick + MA(20/40) + Dynamic SLs",
               head \o ": CCI(6) + MA(1)">>
        ELSE <<head \o ": Candlestick + Signals", head \o ": TIF">>

\* The titles the code composes: a hyphen, and the code's own wording.
CodeTitles(mode, timeframe, ticker) ==
    LET head == timeframe \o " " \o mode \o " - " \o ticker
    IN  IF mode = "Swing"
        THEN <<head \o ": Candlestick + MA(20/40) + Dynamic SLs",
               head \o ": CCI (6) + MA(1)">>
        ELSE <<head \o ": Candlestick Chart with Signals", head \o ": TIF">>

ModeOfKey(key) ==
    IF key \in {"load-daily-swing", "load-weekly-swing"}
    THEN "Swing" ELSE "Positioning"
TimeframeOfKey(key) ==
    IF key \in {"load-daily-swing", "load-daily-positioning"}
    THEN "Daily" ELSE "Weekly"

HeightsByMode(mode) == IF mode = "Swing" THEN <<70, 30>> ELSE <<50, 30>>

LayoutIs(Titles(_, _, _)) ==
    pc = "done" =>
        /\ ctx.subplot_titles =
              Titles(ModeOfKey(ctx.last_loaded_key),
                     TimeframeOfKey(ctx.last_loaded_key), ctx.ticker)
        /\ fig.type = "Graph" =>
              /\ fig.subplot_titles = ctx.subplot_titles
              /\ Len(fig.row_heights) = 2
              /\ fig.row_heights = HeightsByMode(ModeOfKey(ctx.last_loaded_key))

\* C10 as stated: two panels, heights by mode alone, and the titles of the
\* two templates of the specification ("... – AAPL: Candlestick + Signals").
C10_SpecLayout == LayoutIs(SpecTitles)

\* C10 amended: two panels, heights 0.7/0.3 for swing and 0.5/0.3 for
\* positioning by mode alone, and the titles of the code's two templates,
\* into which timeframe and ticker are only substituted.
C10_CodeLayout == LayoutIs(CodeTitles)

\* The context {positioning, weekly, "AAPL"} with its figure.
C10_Witness ==
    /\ Built
    /\ ctx.last_loaded_key = "load-weekly-positioning"
    /\ ctx.ticker = "AAPL"
    /\ fig.subplot_titles[1]
         = "Weekly Positioning - AAPL: Candlestick Chart with Signals"
    /\ fig.row_heights = <<50, 30>>

(***************************************************************************)
(* The datasets the normalization is studied on: what pd.DataFrame makes   *)
(* of a mapping with a date column, a price column and signal columns.     *)
(***************************************************************************)
DateCells ==
    {<<"str", k>> : k \in 1..MaxDay} \cup {<<"bad", 0>>, <<"none", 0>>}

SignalCells ==
    {<<"bool", 0>>, <<"bool", 1>>, <<"none", 0>>, <<"nan", 0>>, <<"text", 0>>}

\* The mapping of n rows with these dates and signal values; Close numbers
\* the rows in their original order.
RawMapping(cols, dates, signals) ==
    [c \in cols |->
        IF c = "Date" THEN dates
        ELSE IF c = "Close" THEN [i \in DOMAIN dates |-> <<"num", i>>]
        ELSE signals]

RawColumnSets ==
    { {"Date", "Close", "is_earnings_date", "Entry_Buy_Signal"},
      {"Close", "is_earnings_date"},
      {"Date", "Close"} }

RawFrame(cols, dates, signals) ==
    pd_DataFrame(PyDict(RawMapping(cols, dates, signals)))

InitNormalize ==
    /\ Idle
    /\ payload = NoValue
    /\ resolved = NoValue
    /\ \E n \in 1..MaxRows, cols \in RawColumnSets :
          \E dates \in [1..n -> DateCells], signals \in [1..n -> SignalCells] :
              raw = RawFrame(cols, dates, signals)
    /\ data = raw
    /\ ctx = NoValue
    /\ fig = NoValue
    /\ pc = "parsed"

\* Lines 245-258 on the DataFrame of the request.
Normalize ==
    /\ pc = "parsed"
    /\ \E t \in timeline(data) : data' = coerce_signals(t)
    /\ pc' = "normalized"
    /\ UNCHANGED <<uploaded_df, store, table, selected_rows, plot_output,
                   payload, resolved, raw, ctx, fig>>

\* Lines 245-258 once more, on the normalized DataFrame: raw becomes the
\* frame this second pass starts from.
Renormalize ==
    /\ pc = "normalized"
    /\ raw' = data
    /\ \E t \in timeline(data) : data' = coerce_signals(t)
    /\ pc' = "renormalized"
    /\ UNCHANGED <<uploaded_df, store, table, selected_rows, plot_output,
                   payload, resolved, ctx, fig>>

NextNormalize == Normalize \/ Renormalize

SpecNormalize == InitNormalize /\ [][NextNormalize]_vars

(***************************************************************************)
(* Properties of the normalized dataset.                                   *)
(***************************************************************************)
\* C4: after normalization of a dataset with a Date column no row has a
\* missing timestamp and the temporal keys are strictly increasing.
C4_KeysStrictlyIncreasing ==
    (pc = "normalized" /\ "Date" \in raw.columns) =>
        /\ \A i \in DOMAIN data.index : data.index[i][1] = "ts"
        /\ \A i, j \in DOMAIN data.index :
              i < j => data.index[i][2] < data.index[j][2]

\* The row of the input that a normalized row comes from.
Origin(row) == CHOOSE i \in DOMAIN raw.rows : raw.rows[i]["Close"] = row["Close"]

FalseLike == {<<"bool", 0>>, <<"int", 0>>, <<"text", 0>>}

\* What the specification makes of a signal value.
SpecBool(cell) ==
    IF IsNull(cell) THEN cell
    ELSE IF cell \in FalseLike THEN <<"bool", 0>>
    ELSE <<"bool", 1>>

\* The signal columns the marker logic of either mode uses as a row mask.
MaskColumns == BoolColumns

\* C5: after normalization every signal column holds only booleans or
\* nulls: a null stays null, a false-like token is false, any other value
\* is true, and no absent signal column is created.
C5_SignalsBooleanOrNull ==
    pc = "normalized" =>
        \A c \in MaskColumns :
            /\ c \in data.columns <=> c \in raw.columns
            /\ c \in data.columns =>
                  \A i \in DOMAIN data.rows :
                      data.rows[i][c] = SpecBool(raw.rows[Origin(data.rows[i])][c])

(***************************************************************************)
(* plot_selected_row, lines 236-504, from the fetched object on.           *)
(***************************************************************************)
Div(text) == [type |-> "Div", text |-> text]

\* The outcomes of the request: the frame as first built, the frame as
\* normalized, and the children of plot-output (a Div, a Graph) or the
\* exception that escapes the callback.
plot_fetched(plot_dict, strategy_type, last_loaded_key, ticker) ==
    LET parsed == parse_plot_dict(plot_dict)
    IN  IF parsed.type = "Div"
        THEN {[raw |-> NoValue, data |-> NoValue, fig |-> parsed]}
        ELSE IF IsRaise(parsed)
        THEN {[raw |-> NoValue, data |-> NoValue,
               fig |-> Div("Failed to parse plot_dict for ticker")]}
        ELSE {[raw |-> parsed,
               data |-> coerce_signals(t),
               fig |-> build_figure(coerce_signals(t), strategy_type,
                                    last_loaded_key, ticker)]
              : t \in timeline(parsed)}

(***************************************************************************)
(* The objects a per-ticker pickle may hold.                               *)
(***************************************************************************)
ContentColumns ==
    {"Date", "Open", "High", "Low", "Close", "signal_type", "is_earnings_date"}

ContentMapping(dates) ==
    [c \in ContentColumns |->
        IF c = "Date" THEN dates
        ELSE IF c = "signal_type" THEN [i \in DOMAIN dates |-> <<"text", 2 + (i % 2)>>]
        ELSE IF c = "is_earnings_date" THEN [i \in DOMAIN dates |-> <<"bool", i % 2>>]
        ELSE [i \in DOMAIN dates |-> <<"num", i>>]]

\* A mapping whose lists differ in length.
RaggedMapping ==
    [c \in {"Date", "Close"} |->
        IF c = "Date" THEN <<<<"str", 1>>, <<"str", 2>>>> ELSE <<<<"num", 1>>>>]

Mappings ==
    UNION {{ContentMapping(dates) : dates \in [1..n -> {<<"str", k>> : k \in 1..MaxDay}]}
           : n \in 1..2}
    \cup {RaggedMapping}

\* What the plot_dict field of a table may hold.
Embedded ==
    {PyDict(m) : m \in Mappings}
    \cup {PyStr(syntax, PyDict(m)) : syntax \in {"json", "python", "expr"}, m \in Mappings}
    \cup {PyStr("invalid", NoValue), PyStr("json", PyList(<<<<"num", 1>>>>)),
          PyStr("json", PyOther("int")), PyOther("float"), PyOther("list")}

\* The index labels a stored table of n rows may carry.
Indexes(n) ==
    {RangeIndex(n), [i \in 1..n |-> <<"int", n - i>>], [i \in 1..n |-> <<"int", i + 4>>]}

\* A table with a plot_dict column; with_series adds time-series columns.
PlotDictTable(embedded, index, with_series) ==
    LET cols == {"plot_dict", "Ticker"}
                \cup (IF with_series THEN {"Date", "Close"} ELSE {})
    IN  DataFrame(cols, index,
                  [i \in DOMAIN index |->
                      [c \in cols |->
                          IF c = "plot_dict" THEN embedded
                          ELSE IF c = "Ticker" THEN <<"text", 5>>
                          ELSE IF c = "Date" THEN <<"ts", i>>
                          ELSE <<"num", i>>]])

IsPayload(p) ==
    \/ \E e \in Embedded, n \in 1..2, b \in BOOLEAN :
          \E index \in Indexes(n) : p = PlotDictTable(e, index, b)
    \/ \E m \in Mappings :
          \/ p = PyDict(m)
          \/ p = PyStr("json", PyDict(m))
          \/ p = PyStr("python", PyDict(m))
          \/ m # RaggedMapping /\ p = pd_DataFrame(PyDict(m))
    \/ p \in {PyStr("invalid", NoValue), PyOther("list"), PyOther("NoneType")}

InitResolve ==
    /\ Idle
    /\ IsPayload(payload)
    /\ resolved = NoValue
    /\ raw = NoValue
    /\ data = NoValue
    /\ ctx = NoValue
    /\ fig = NoValue
    /\ pc = "fetched"

\* dropbox_utils.read_and_unpack_ticker_pickle on the fetched object.
Resolve ==
    /\ pc = "fetched"
    /\ resolved' = read_and_unpack_ticker_pickle(payload)
    /\ pc' = "resolved"
    /\ UNCHANGED <<uploaded_df, store, table, selected_rows, plot_output,
                   payload, raw, data, ctx, fig>>

\* plot_selected_row, lines 236-504, on the fetched object.
PlotFetched ==
    /\ pc = "fetched"
    /\ \E last_loaded_key \in DOMAIN FILE_MAP, ticker \in Tickers :
          LET strategy_type == strategy_type_of(last_loaded_key)
          IN  /\ ctx' = [strategy_type |-> strategy_type,
                         last_loaded_key |-> last_loaded_key,
                         ticker |-> ticker,
                         subplot_titles |->
                             subplot_titles(strategy_type, last_loaded_key, ticker)]
              /\ \E o \in plot_fetched(payload, strategy_type, last_loaded_key, ticker) :
                    /\ raw' = o.raw
                    /\ data' = o.data
                    /\ fig' = o.fig
    /\ pc' = "plotted"
    /\ UNCHANGED <<uploaded_df, store, table, selected_rows, plot_output,
                   payload, resolved>>

NextResolve == Resolve \/ PlotFetched

SpecResolve == InitResolve /\ [][NextResolve]_vars

(***************************************************************************)
(* Properties of the decoding.                                             *)
(***************************************************************************)
HasMarkerField(p) == p.type = "DataFrame" /\ "plot_dict" \in p.columns

\* C6: a table with the marker field plot_dict is decoded through case 1,
\* also when it has several rows and time-series columns; case 2 is taken
\* only when case 1 does not apply, case 3 only when neither does.
C6_PriorityOrder ==
    pc = "resolved" =>
        /\ HasMarkerField(payload) =>
              /\ resolved.case = 1
              /\ resolved.result.type = "DataFrame" =>
                    "plot_dict" \notin resolved.result.columns
        /\ resolved.case = 2 => ~HasMarkerField(payload) /\ payload.type = "dict"
        /\ resolved.case = 3 =>
              /\ ~HasMarkerField(payload)
              /\ payload.type = "DataFrame"
              /\ resolved.result = payload

\* A table of two rows with plot_dict and time-series columns, unpacked
\* through case 1 into the dataset of the nested field.
C6_Witness ==
    /\ pc = "resolved"
    /\ HasMarkerField(payload)
    /\ Len(payload.rows) = 2
    /\ "Date" \in payload.columns
    /\ resolved.case = 1
    /\ resolved.result.type = "DataFrame"
    /\ resolved.result.columns = ContentColumns

\* The field of the first row of a table with plot_dict.
FirstField(p) == p.rows[1]["plot_dict"]

\* The payloads the decoder has no case for: neither a table nor a mapping,
\* or a table whose plot_dict field is neither a text that one of the two
\* parsers accepts nor a mapping.
Undecodable(p) ==
    \/ p.type \notin {"DataFrame", "dict"}
    \/ /\ HasMarkerField(p)
       /\ FirstField(p).type # "dict"
       /\ ~(FirstField(p).type = "str" /\ FirstField(p).syntax \in {"json", "python"})

\* C7: for a payload of no known shape, and for a table whose plot_dict
\* field cannot be decoded, resolve ends in an error and returns no dataset,
\* and the plot request that fetched it returns an error and builds no plan.
C7_UnknownShapesFail ==
    Undecodable(payload) =>
        /\ pc = "resolved" => IsRaise(resolved.result)
        /\ pc = "plotted" => fig.type = "Div"

(***************************************************************************)
(* The application: two browser sessions against one server process.       *)
(***************************************************************************)
Sessions == {1, 2}

\* The summary table each excl_plot file holds: per row the ticker and, as
\* Source, the rest of the row, which belongs to that file alone.
StoredTickers(file_path) ==
    CASE file_path = "/all_daily_swing_excl_plot.pkl" -> <<"AAPL", "MSFT">>
      [] file_path = "/all_weekly_swing_excl_plot.pkl" -> <<"MSFT">>
      [] file_path = "/all_daily_positioning_excl_plot.pkl" -> <<"AAPL", "">>
      [] file_path = "/all_weekly_positioning_excl_plot.pkl" -> <<"MSFT", "AAPL">>

StoredTable(file_path) ==
    LET tickers == StoredTickers(file_path)
    IN  DataFrame({"Ticker", "Source"}, RangeIndex(Len(tickers)),
                  [i \in DOMAIN tickers |->
                      [Ticker |-> tickers[i], Source |-> file_path]])

incl_folder_map ==
    [k \in DOMAIN FILE_MAP |->
        CASE k = "load-daily-swing" -> "/all_daily_swing_incl_plot/"
          [] k = "load-weekly-swing" -> "/all_weekly_swing_incl_plot/"
          [] k = "load-daily-positioning" -> "/all_daily_positioning_incl_plot/"
          [] k = "load-weekly-positioning" -> "/all_weekly_positioning_incl_plot/"]

\* What the storage may hold under a per-ticker path.
TickerPayloads ==
    {PyDict(ContentMapping(<<<<"str", 2>>, <<"str", 1>>>>)),
     PlotDictTable(PyDict(ContentMapping(<<<<"str", 1>>>>)), RangeIndex(1), FALSE),
     PyStr("invalid", NoValue)}

DropboxError == Raise("RuntimeError", "Dropbox API error")

NoOutput == [session |-> 0, children |-> NoValue, row |-> NoValue,
             last_loaded_key |-> "", fetched |-> ""]

Init ==
    /\ uploaded_df = EmptyFrame
    /\ store = [s \in Sessions |-> [strategy_type |-> "", last_loaded_key |-> ""]]
    /\ table = [s \in Sessions |-> <<>>]
    /\ selected_rows = [s \in Sessions |-> <<>>]
    /\ plot_output = NoOutput
    /\ payload = NoValue
    /\ resolved = NoValue
    /\ raw = NoValue
    /\ data = NoValue
    /\ ctx = NoValue
    /\ fig = NoValue
    /\ pc = "serving"

Pipeline == <<payload, resolved, raw, data, ctx, fig, pc>>

\* load_pickle_from_button, fired in session s by the button triggered_id
\* ("" when the callback fires with no button); fetch_ok is whether the
\* download succeeds.
load_pickle_from_button(s, triggered_id, fetch_ok) ==
    LET cleared == [strategy_type |-> "", last_loaded_key |-> ""]
    IN  IF triggered_id = "" \/ triggered_id \notin DOMAIN FILE_MAP \/ ~fetch_ok
        THEN /\ store' = [store EXCEPT ![s] = cleared]
             /\ table' = [table EXCEPT ![s] = <<>>]
             /\ UNCHANGED uploaded_df
        ELSE LET df == StoredTable(FILE_MAP[triggered_id])
             IN  /\ uploaded_df' = df
                 /\ store' = [store EXCEPT ![s] =
                                [strategy_type |-> strategy_type_of(triggered_id),
                                 last_loaded_key |-> triggered_id]]
                 /\ table' = [table EXCEPT ![s] = df.rows]

Load(s) ==
    /\ \E triggered_id \in DOMAIN FILE_MAP \cup {""}, fetch_ok \in BOOLEAN :
          load_pickle_from_button(s, triggered_id, fetch_ok)
    /\ UNCHANGED <<selected_rows, plot_output, Pipeline>>

\* select_row_on_cell_click: active_cell is <<row>> after a click on a cell
\* of the shown table, <<>> when there is none.
SelectRow(s) ==
    /\ \E active_cell \in {<<>>} \cup {<<i - 1>> : i \in DOMAIN table[s]} :
          selected_rows' = [selected_rows EXCEPT ![s] =
                               IF active_cell = <<>> THEN <<>>
                               ELSE <<active_cell[1]>>]
    /\ UNCHANGED <<uploaded_df, store, table, plot_output, Pipeline>>

\* plot_selected_row with the stores of session s as its State arguments;
\* fetched is what read_pickle_from_dropbox returns for the ticker file, or
\* the exception it raises.
plot_selected_row(s, n_clicks, fetched) ==
    LET strategy_type == store[s].strategy_type
        last_loaded_key == store[s].last_loaded_key
        Out(children, row, file) ==
            [session |-> s, children |-> children, row |-> row,
             last_loaded_key |-> last_loaded_key, fetched |-> file]
    IN  IF n_clicks = 0 \/ selected_rows[s] = <<>> \/ uploaded_df.rows = <<>>
        THEN {Out(Div("Select a row to plot after loading data."), NoValue, "")}
        ELSE IF selected_rows[s][1] + 1 > Len(uploaded_df.rows)
        THEN {Out(Raise("IndexError", "single positional indexer is out-of-bounds"),
                  NoValue, "")}
        ELSE LET row == uploaded_df.rows[selected_rows[s][1] + 1]
                 ticker == row.Ticker
             IN  IF ticker = ""
                 THEN {Out(Div("Could not find 'Ticker' in selected row."), row, "")}
                 ELSE IF last_loaded_key \notin DOMAIN incl_folder_map
                 THEN {Out(Div("Could not determine which incl_plot folder to load."),
                           row, "")}
                 ELSE LET ticker_file == incl_folder_map[last_loaded_key]
                                           \o ticker \o ".pkl"
                      IN  IF IsRaise(fetched)
                          THEN {Out(Div("Failed to load from Dropbox"), row, ticker_file)}
                          ELSE {Out(o.fig, row, ticker_file)
                                : o \in plot_fetched(fetched, strategy_type,
                                                     last_loaded_key, ticker)}

Plot(s) ==
    /\ \E n_clicks \in {0, 1}, fetched \in TickerPayloads \cup {DropboxError} :
          \E out \in plot_selected_row(s, n_clicks, fetched) :
              plot_output' = out
    /\ UNCHANGED <<uploaded_df, store, table, selected_rows, Pipeline>>

Next == \E s \in Sessions : Load(s) \/ SelectRow(s) \/ Plot(s)

Spec == Init /\ [][Next]_vars

\* C9: the row a plot request takes its ticker from belongs to the dataset
\* that the same session loaded last, whatever other sessions loaded.
C9_RowOfOwnDataset ==
    plot_output.fetched # "" =>
        plot_output.row.Source = FILE_MAP[plot_output.last_loaded_key]


(***************************************************************************)
(* Equivalence of the three payload shapes.                                *)
(***************************************************************************)
\* The payload carries the mapping m in one of the three shapes: a one-row
\* table whose plot_dict field holds m (as a mapping or as a text that
\* parses to it), the bare mapping, or the time-series table of m.
Carries(p, m) ==
    \/ \E e \in {PyDict(m), PyStr("json", PyDict(m)), PyStr("python", PyDict(m))},
          b \in BOOLEAN : p = PlotDictTable(e, RangeIndex(1), b)
    \/ p = PyDict(m)
    \/ p = pd_DataFrame(PyDict(m))

\* The dataset of the logical content m.
DatasetOf(m) ==
    DataFrame(DOMAIN m, [i \in 1..Len(m["Date"]) |-> <<"int", i - 1>>],
              [i \in 1..Len(m["Date"]) |-> [c \in DOMAIN m |-> m[c][i]]])

\* C11: the same content in each of the three shapes is accepted and gives
\* the same dataset, by resolve and by the decoding of the plot request.
C11_ShapesDecodeAlike ==
    \A m \in Mappings \ {RaggedMapping} :
        Carries(payload, m) =>
            /\ pc = "resolved" => resolved.result = DatasetOf(m)
            /\ pc = "plotted" => fig.type # "Div" /\ raw = DatasetOf(m)


(***************************************************************************)
(* Idempotence of the normalization.                                       *)
(***************************************************************************)
\* C12: the normalization steps applied to a normalized dataset give that
\* dataset again: same columns, same index, same rows in the same order.
C12_NormalizeIdempotent ==
    pc = "renormalized" => data = raw

\* A second pass over a dataset whose first pass dropped a row, moved a
\* later row before an earlier one and coerced a signal column.
C12_Witness ==
    /\ pc = "renormalized"
    /\ data = raw
    /\ Len(data.rows) = 2
    /\ data.index[1][1] = "ts"
    /\ data.rows[1]["Close"] = <<"num", 3>>
    /\ "is_earnings_date" \in data.columns
    /\ data.rows[1]["is_earnings_date"] = <<"bool", 1>>


(***************************************************************************)
(* One session alone against the server process.                           *)
(***************************************************************************)
NextSession == Load(1) \/ SelectRow(1) \/ Plot(1)

SpecSession == Init /\ [][NextSession]_vars

SwingKeys == {"load-daily-swing", "load-weekly-swing"}
ButtonKeys == SwingKeys \cup {"load-daily-positioning", "load-weekly-positioning"}

\* The stores of the session agree with each other and with the global
\* dataset: the key is empty or a button key, and a non-empty key names the
\* strategy and the file whose table uploaded_df holds.
StoresConsistent ==
    LET key == store[1].last_loaded_key
    IN  /\ key \in {""} \cup ButtonKeys
        /\ key # "" =>
              /\ store[1].strategy_type = "swing" <=> key \in SwingKeys
              /\ store[1].strategy_type \in {"swing", "positioning"}
              /\ uploaded_df = StoredTable(FILE_MAP[key])

\* A plot request made with an empty key fetched nothing and returned an
\* error message, not a chart.
PlotAfterFailedLoad ==
    (plot_output.session = 1 /\ plot_output.last_loaded_key = "") =>
        /\ plot_output.fetched = ""
        /\ plot_output.children.type = "Div"

\* A load that leaves the key empty has cleared the strategy too and has
\* not touched the global dataset.
FailedLoadStep ==
    (store' # store /\ store'[1].last_loaded_key = "") =>
        /\ store'[1].strategy_type = ""
        /\ uploaded_df' = uploaded_df

\* C13: in a single session the stores stay consistent after any sequence
\* of loads and plots; a failed load clears both stores and leaves the
\* dataset slot unchanged, and a plot request after it fetches nothing and
\* returns an error message instead of a chart.
C13_SessionStores ==
    [][StoresConsistent' /\ FailedLoadStep /\ PlotAfterFailedLoad']_vars

====
